---- MODULE Spec2Model ----
(***************************************************************************)
(* amphora-rss: the RSS renderer of src/index.js (the current revision,   *)
(* lines 218-439).  A feed (an array of items, each an array of           *)
(* single-key tag-records), a meta object and an attribute map are turned  *)
(* into an rss/channel/item tree and written to an HTTP response, or an    *)
(* error is written by sendError.                                          *)
(*                                                                         *)
(* JavaScript values are modelled as strings: Undef, Null, the empty       *)
(* string, Zero (the number 0) and False are the falsy ones.  A tag-record *)
(* {k: v} is [k, v, c]: c holds the properties of an object value.  An     *)
(* array that may also be null or undefined is [nul, a].                   *)
(***************************************************************************)
EXTENDS Integers, Sequences, FiniteSets, TLC

VARIABLES
    feed,       \* the caller's Feed object (render splices its items in place)
    meta,       \* the caller's Meta object (render assigns meta.image)
    attr,       \* the caller's attribute map
    givenFeed,  \* the value the caller gave the Feed object when it built it
    givenMeta,  \* the value the caller gave the Meta object when it built it
    feedIn,     \* the value of feed when the current call of render began
    metaIn,     \* the value of meta when the current call of render began
    now,        \* new Date() of the current call
    pc,         \* position of the current call
    idx,        \* next item of h(feed) to go through .map(wrapInItem)
    group,      \* the items .collect() has gathered so far
    data,       \* the value the stream hands to toPromise, if any
    rejected,   \* message of the error the .then callback threw
    resCalls,   \* the calls made on res, in order
    sent,       \* the tree given to xml() for res.send
    logCalls    \* the calls made on log, in order

vars == <<feed, meta, attr, givenFeed, givenMeta, feedIn, metaIn, now, pc, idx,
          group, data, rejected, resCalls, sent, logCalls>>

-----------------------------------------------------------------------------
(* JavaScript values *)

Undef == "undefined"
Null == "null"
Zero == "0"
False == "false"
True == "true"
Object == "[object Object]"

Falsy == {Undef, Null, "", Zero, False}

Truthy(v) == v \notin Falsy

Tag(k, v) == [k |-> k, v |-> v, c |-> <<>>]

Node(k, c) == [k |-> k, v |-> Object, c |-> c]

\* a null element of an array
NullRec == [k |-> Null, v |-> Null, c |-> <<>>]

\* what indexing an array out of range gives
UndefRec == [k |-> Undef, v |-> Undef, c |-> <<>>]

Arr(a) == [nul |-> FALSE, a |-> a]

NullItem == [nul |-> TRUE, a |-> <<>>]

\* rec[name] of a non-null tag-record
Prop(rec, name) == IF rec.k = name THEN rec.v ELSE Undef

\* array[i] with a JavaScript (0-based) index
At(array, i) == IF i >= 0 /\ i < Len(array) THEN array[i + 1] ELSE UndefRec

\* lodash _get(rec, 'image.url')
GetImageUrl(rec) ==
    IF rec \in {UndefRec, NullRec} \/ rec.k # "image" THEN Undef
    ELSE LET us == SelectSeq(rec.c, LAMBDA p : p.k = "url")
         IN  IF us = <<>> THEN Undef ELSE us[1].v

RECURSIVE Join(_)
\* Array.prototype.join(',')
Join(s) ==
    IF s = <<>> THEN ""
    ELSE IF Len(s) = 1 THEN s[1]
    ELSE s[1] \o "," \o Join(Tail(s))

\* Array.prototype.splice(start, 1): the array left behind
Splice(a, start) ==
    LET from == IF start < 0
                THEN (IF Len(a) + start < 0 THEN 0 ELSE Len(a) + start)
                ELSE (IF start > Len(a) THEN Len(a) ELSE start)
        gone == IF from < Len(a) THEN 1 ELSE 0
    IN  [j \in 1..(Len(a) - gone) |-> IF j <= from THEN a[j] ELSE a[j + 1]]

-----------------------------------------------------------------------------
(* src/index.js 411-413 *)

RECURSIVE FindFrom(_, _, _)
\* lodash findIndex from position n: the predicate item[element] throws on null
FindFrom(a, element, n) ==
    IF n > Len(a) THEN [threw |-> FALSE, idx |-> -1]
    ELSE IF a[n] = NullRec THEN [threw |-> TRUE, idx |-> -1]
    ELSE IF Truthy(Prop(a[n], element)) THEN [threw |-> FALSE, idx |-> n - 1]
    ELSE FindFrom(a, element, n + 1)

findIndexOfElementInArray(array, element) ==
    IF array.nul THEN [threw |-> FALSE, idx |-> -1]
    ELSE FindFrom(array.a, element, 1)

-----------------------------------------------------------------------------
(* src/index.js 352-360 *)

\* the earlier revision (src/index.js 121-129): splice without the -1 guard
wrapInItemUnguarded(entry) ==
    IF entry.nul THEN [threw |-> TRUE, entry |-> entry]
    ELSE IF Len(entry.a) # 0
    THEN LET found == findIndexOfElementInArray(entry, "image")
         IN  IF found.threw THEN [threw |-> TRUE, entry |-> entry]
             ELSE [threw |-> FALSE, entry |-> Arr(Splice(entry.a, found.idx))]
    ELSE [threw |-> FALSE, entry |-> entry]

\* entry.length of null throws; the entry is spliced in place and {item: entry}
\* holds that same array
wrapInItem(entry) ==
    IF entry.nul THEN [threw |-> TRUE, entry |-> entry]
    ELSE IF Len(entry.a) # 0
    THEN LET found == findIndexOfElementInArray(entry, "image")
         IN  IF found.threw THEN [threw |-> TRUE, entry |-> entry]
             ELSE IF found.idx # -1
             THEN [threw |-> FALSE, entry |-> Arr(Splice(entry.a, found.idx))]
             ELSE [threw |-> FALSE, entry |-> entry]
    ELSE [threw |-> FALSE, entry |-> entry]

-----------------------------------------------------------------------------
(* src/index.js 237-247 *)

\* one item's categories: filter(entry => entry && entry.category), map, join
ItemCategories(item) ==
    LET kept == SelectSeq(item.c,
                    LAMBDA entry : entry # NullRec /\ Truthy(Prop(entry, "category")))
    IN  Join([j \in 1..Len(kept) |-> Prop(kept[j], "category")])

\* elevateCategory without its .filter(Boolean)
elevateCategoryUnfiltered(items) ==
    [j \in 1..Len(items) |-> Tag("category", ItemCategories(items[j]))]

elevateCategory(items) ==
    LET strings == [j \in 1..Len(items) |-> ItemCategories(items[j])]
        nonEmpty == SelectSeq(strings, Truthy)
    IN  [j \in 1..Len(nonEmpty) |-> Tag("category", nonEmpty[j])]

-----------------------------------------------------------------------------
(* src/index.js 423-431 *)

formatImageTag(url, link, title) ==
    Node("image", <<Tag("url", url), Tag("link", link), Tag("title", title)>>)

-----------------------------------------------------------------------------
(* src/index.js 225-226, 264-305 *)

docsUrl == "http://blogs.law.harvard.edu/tech/rss"

generatorMessage == "Feed delivered by Clay"

\* the message of the Error feedMetaTags throws (its backquotes left out)
requiredMessage ==
    "A title, description and link property are all required in the meta object for the RSS renderer"

NoImage == [nul |-> TRUE, url |-> Undef]

Image(url) == [nul |-> FALSE, url |-> url]

\* a default parameter value stands in for undefined only
Default(v, d) == IF v = Undef THEN d ELSE v

feedMetaTags(m, date, items) ==
    LET generator == Default(m.generator, generatorMessage)
        docs == Default(m.docs, docsUrl)
        elevateChannelCategories == Default(m.elevateChannelCategories, True)
        siteMeta == << Tag("title", m.title),
                       Tag("description", m.description),
                       Tag("link", m.link),
                       Tag("lastBuildDate", date.rfc822),
                       Tag("docs", docs),
                       Tag("copyright",
                           IF Truthy(m.copyright) THEN m.copyright ELSE date.year),
                       Tag("generator", generator) >>
        withOpt == IF ~m.opt.nul THEN siteMeta \o m.opt.a ELSE siteMeta
        withImage == IF ~m.image.nul
                     THEN Append(withOpt, formatImageTag(m.image.url, m.link, m.title))
                     ELSE withOpt
        channelCats == IF Truthy(elevateChannelCategories)
                       THEN elevateCategory(items) ELSE <<>>
    IN  IF ~Truthy(m.title) \/ ~Truthy(m.description) \/ ~Truthy(m.link)
        THEN [threw |-> TRUE, message |-> requiredMessage, channel |-> <<>>]
        ELSE [threw |-> FALSE, message |-> "",
              channel |-> withImage \o channelCats \o items]

-----------------------------------------------------------------------------
(* src/index.js 313-344 *)

\* the earlier cleanNullValues (src/unnamed/part_000 92-98) tested for null,
\* undefined and the empty string only
cleanNullValuesStrict(obj) ==
    [k \in {p \in DOMAIN obj : obj[p] \notin {Null, Undef, ""}} |-> obj[k]]

cleanNullValues(obj) ==
    [k \in {p \in DOMAIN obj : Truthy(obj[p])} |-> obj[k]]

defaultNamespaces ==
    [k \in {"version", "xmlns:content", "xmlns:mi", "xmlns:dc", "xmlns:media"} |->
        CASE k = "version" -> "2.0"
          [] k = "xmlns:content" -> "http://purl.org/rss/1.0/modules/content/"
          [] k = "xmlns:mi" -> "http://schemas.ingestion.microsoft.com/common/"
          [] k = "xmlns:dc" -> "http://purl.org/dc/elements/1.1/"
          [] k = "xmlns:media" -> "http://search.yahoo.com/mrss/"]

\* Object.assign(target, source); a null or undefined source adds nothing
ObjectAssign(target, source) ==
    [k \in DOMAIN target \cup DOMAIN source |->
        IF k \in DOMAIN source THEN source[k] ELSE target[k]]

NoAttr == [nul |-> TRUE, m |-> <<>>]

Attr(m) == [nul |-> FALSE, m |-> m]

wrapInTopLevel(channel, attrs) ==
    LET given == IF attrs.nul THEN <<>> ELSE attrs.m
    IN  [ok |-> TRUE,
         attr |-> cleanNullValues(ObjectAssign(defaultNamespaces, given)),
         channel |-> channel]

NoData == [ok |-> FALSE, attr |-> <<>>, channel |-> <<>>]

-----------------------------------------------------------------------------
(* src/index.js 362-367 *)

status == 500

\* res.status(status); res.json({ status, message })
sendErrorRes(calls, message) ==
    calls \o << [op |-> "status", code |-> status, body |-> ""],
                [op |-> "json", code |-> status, body |-> message] >>

\* log('error', e.message, { stack: e.stack })
sendErrorLog(calls, message) ==
    Append(calls, [level |-> "error", message |-> message])

-----------------------------------------------------------------------------
(* src/index.js 380-402 *)

noDataMessage == "No data sent to XML renderer, cannot respond"

\* the message of the TypeError a property read of null throws
typeErrorMessage == "Cannot read property of null"

\* the earlier revision (src/index.js 150-160) read feed[0][imageIndex].image,
\* which throws when the first item holds no image
hoistImageUnguarded(f, m) ==
    IF Len(f) # 0
    THEN LET found == findIndexOfElementInArray(f[1], "image")
         IN  IF found.threw \/ f[1].nul \/ found.idx = -1
             THEN [threw |-> TRUE, meta |-> m]
             ELSE LET url == GetImageUrl(At(f[1].a, found.idx))
                  IN  [threw |-> FALSE,
                       meta |-> IF Truthy(url) THEN [m EXCEPT !.image = Image(url)]
                                ELSE m]
    ELSE [threw |-> FALSE, meta |-> m]

\* lines 381-385: feed[0][imageIndex] of a null feed[0] throws, as does the
\* findIndex predicate on a null tag-record
hoistImage(f, m) ==
    IF Len(f) # 0
    THEN LET found == findIndexOfElementInArray(f[1], "image")
         IN  IF found.threw \/ f[1].nul
             THEN [threw |-> TRUE, meta |-> m]
             ELSE LET url == GetImageUrl(At(f[1].a, found.idx))
                  IN  [threw |-> FALSE,
                       meta |-> IF Truthy(url) THEN [m EXCEPT !.image = Image(url)]
                                ELSE m]
    ELSE [threw |-> FALSE, meta |-> m]

-----------------------------------------------------------------------------
(* Inputs *)

MaxItems == 2

MaxEntries == 2

SeqsUpTo(S, n) == UNION {[1..k -> S] : k \in 0..n}

titleRec == Tag("title", "Ep1")

ImageRec(url) == Node("image", <<Tag("url", url)>>)

ImageNoUrl == Node("image", <<>>)

\* Data Model: an item holds at most one tag-record keyed image
ItemsOver(S) ==
    {Arr(a) : a \in {e \in SeqsUpTo(S, MaxEntries) :
                        Cardinality({j \in 1..Len(e) : e[j].k = "image"}) <= 1}}

FeedsOver(I) == SeqsUpTo(I, MaxItems)

WellFormedFeeds ==
    FeedsOver(ItemsOver({titleRec, ImageRec("http://x/a.png"), ImageRec("")}))
    \cup FeedsOver(ItemsOver({titleRec, ImageNoUrl}))

MalformedFeeds ==
    FeedsOver(ItemsOver({NullRec, ImageRec("http://x/a.png")}) \cup {NullItem})

NoOpt == [nul |-> TRUE, a |-> <<>>]

validMeta ==
    [title |-> "Show", description |-> "D", link |-> "http://x",
     copyright |-> Undef, generator |-> Undef, docs |-> Undef, opt |-> NoOpt,
     image |-> NoImage, elevateChannelCategories |-> Undef]

InvalidMetas ==
    {[validMeta EXCEPT !.title = Undef], [validMeta EXCEPT !.description = ""],
     [validMeta EXCEPT !.link = Null]}

RenderMetas ==
    {validMeta, [validMeta EXCEPT !.image = Image("http://x/m.png")]} \cup InvalidMetas

Clock ==
    {[year |-> "2025", rfc822 |-> "Wed, 31 Dec 2025 23:59:59 +0000"],
     [year |-> "2026", rfc822 |-> "Thu, 01 Jan 2026 00:00:00 +0000"]}

NoDate == [year |-> "", rfc822 |-> ""]

\* the feeds the caller passes with meta m
FeedsWith(m) ==
    IF m.image.nul THEN WellFormedFeeds \cup MalformedFeeds ELSE WellFormedFeeds

\* the items the caller puts in its feeds
CallerItems == UNION {{f[j] : j \in 1..Len(f)} : f \in WellFormedFeeds \cup MalformedFeeds}

\* the metas the caller passes with feed f
MetasWith(f) ==
    IF f \in WellFormedFeeds THEN RenderMetas ELSE {m \in RenderMetas : m.image.nul}

-----------------------------------------------------------------------------
(* render and its caller *)

\* no call is in progress: no stream, promise, res or date
Forgotten ==
    /\ feedIn' = feed'
    /\ metaIn' = meta'
    /\ now' = NoDate
    /\ idx' = 0
    /\ group' = <<>>
    /\ data' = NoData
    /\ rejected' = ""
    /\ resCalls' = <<>>
    /\ sent' = NoData
    /\ logCalls' = <<>>

Init ==
    /\ meta \in RenderMetas
    /\ feed = <<>>
    /\ attr = NoAttr
    /\ givenFeed = feed
    /\ givenMeta = meta
    /\ feedIn = feed
    /\ metaIn = meta
    /\ now = NoDate
    /\ pc = "building"
    /\ idx = 0
    /\ group = <<>>
    /\ data = NoData
    /\ rejected = ""
    /\ resCalls = <<>>
    /\ sent = NoData
    /\ logCalls = <<>>

\* the caller starts a new Feed object for its next call
NewFeed ==
    /\ pc \in {"done", "thrown"}
    /\ feed' = <<>>
    /\ givenFeed' = <<>>
    /\ pc' = "building"
    /\ UNCHANGED <<meta, attr, givenMeta>>
    /\ Forgotten

\* the caller adds an item to the Feed object it is building
PushItem ==
    /\ pc = "building"
    /\ \E item \in CallerItems :
          /\ Append(feed, item) \in FeedsWith(givenMeta)
          /\ feed' = Append(feed, item)
    /\ givenFeed' = feed'
    /\ UNCHANGED <<meta, attr, givenMeta, pc>>
    /\ Forgotten

\* the caller builds a new Meta object for its next call
NewMeta ==
    /\ pc \in {"done", "thrown"}
    /\ \E m \in MetasWith(givenFeed) : meta' = m /\ givenMeta' = m
    /\ pc' = "idle"
    /\ UNCHANGED <<feed, attr, givenFeed>>
    /\ Forgotten

\* lines 380-387: the call, the image hoist and the start of the stream, with
\* a fresh res
Render ==
    /\ pc \in {"building", "idle", "done", "thrown"}
    /\ now' \in Clock
    /\ feedIn' = feed
    /\ metaIn' = meta
    /\ LET h == hoistImage(feed, meta)
       IN  /\ meta' = h.meta
           /\ pc' = IF h.threw THEN "thrown" ELSE "map"
    /\ idx' = 1
    /\ group' = <<>>
    /\ data' = NoData
    /\ rejected' = ""
    /\ resCalls' = <<>>
    /\ sent' = NoData
    /\ logCalls' = <<>>
    /\ UNCHANGED <<feed, attr, givenFeed, givenMeta>>

\* lines 388, 392: one item through .map(wrapInItem); an error it throws goes
\* down the stream to .errors and the stream goes on with the next item
MapItem ==
    /\ pc = "map"
    /\ idx <= Len(feed)
    /\ LET w == wrapInItem(feed[idx])
       IN  IF w.threw
           THEN /\ resCalls' = sendErrorRes(resCalls, typeErrorMessage)
                /\ logCalls' = sendErrorLog(logCalls, typeErrorMessage)
                /\ UNCHANGED <<feed, group>>
           ELSE /\ feed' = [feed EXCEPT ![idx] = w.entry]
                /\ group' = Append(group, Node("item", w.entry.a))
                /\ UNCHANGED <<resCalls, logCalls>>
    /\ idx' = idx + 1
    /\ UNCHANGED <<meta, attr, givenFeed, givenMeta, feedIn, metaIn, now, pc, data,
                   rejected, sent>>

\* lines 389-393: .collect() hands the gathered items to feedMetaTags(meta) and
\* wrapInTopLevel; toPromise resolves with the tree, or with undefined when
\* feedMetaTags threw
Collect ==
    /\ pc = "map"
    /\ idx > Len(feed)
    /\ LET r == feedMetaTags(meta, now, group)
       IN  IF r.threw
           THEN /\ resCalls' = sendErrorRes(resCalls, r.message)
                /\ logCalls' = sendErrorLog(logCalls, r.message)
                /\ data' = NoData
           ELSE /\ data' = wrapInTopLevel(r.channel, attr)
                /\ UNCHANGED <<resCalls, logCalls>>
    /\ pc' = "then"
    /\ UNCHANGED <<feed, meta, attr, givenFeed, givenMeta, feedIn, metaIn, now, idx,
                   group, rejected, sent>>

\* lines 394-400: the .then callback
Then ==
    /\ pc = "then"
    /\ IF ~data.ok
       THEN /\ rejected' = noDataMessage
            /\ pc' = "catch"
            /\ UNCHANGED <<resCalls, sent>>
       ELSE /\ resCalls' = resCalls \o
                    << [op |-> "type", code |-> 0, body |-> "text/rss+xml"],
                       [op |-> "send", code |-> 0, body |-> "xml"] >>
            /\ sent' = data
            /\ pc' = "done"
            /\ UNCHANGED rejected
    /\ UNCHANGED <<feed, meta, attr, givenFeed, givenMeta, feedIn, metaIn, now, idx,
                   group, data, logCalls>>

\* line 401: the .catch callback
Catch ==
    /\ pc = "catch"
    /\ resCalls' = sendErrorRes(resCalls, rejected)
    /\ logCalls' = sendErrorLog(logCalls, rejected)
    /\ pc' = "done"
    /\ UNCHANGED <<feed, meta, attr, givenFeed, givenMeta, feedIn, metaIn, now, idx,
                   group, data, rejected, sent>>

Next == NewFeed \/ PushItem \/ NewMeta \/ Render \/ MapItem \/ Collect \/ Then \/ Catch

Spec == Init /\ [][Next]_vars

-----------------------------------------------------------------------------
(* feedMetaTags called on its own, as the module exports it *)

Cat(v) == Tag("category", v)

GroupsOver(S) ==
    SeqsUpTo({Node("item", a) : a \in SeqsUpTo(S, MaxEntries)}, MaxItems)

CategoryGroups ==
    GroupsOver({titleRec, Cat("News"), Cat("")}) \cup GroupsOver({Cat("News"), Cat("Tech")})

ElevateMetas ==
    {[validMeta EXCEPT !.elevateChannelCategories = e] : e \in {Undef, True, False}}

OptionalValues == {Undef, Null, "", "given"}

Opts == {NoOpt, Arr(<<Tag("language", "en-us"), Tag("ttl", "60")>>)}

Images == {NoImage, Image("http://x/m.png"), Image(""), Image(Undef)}

OptionalMetas ==
    {[validMeta EXCEPT !.docs = d, !.generator = g, !.copyright = c,
                       !.opt = o, !.image = i] :
        d \in OptionalValues, g \in OptionalValues, c \in OptionalValues,
        o \in Opts, i \in Images}

SmallGroups ==
    { <<>>,
      <<Node("item", <<titleRec>>)>>,
      <<Node("item", <<titleRec, Cat("News")>>), Node("item", <<titleRec>>)>> }

InitMetaTags ==
    /\ \/ /\ meta \in ElevateMetas
          /\ group \in CategoryGroups
          /\ now = CHOOSE t \in Clock : t.year = "2026"
       \/ /\ meta \in OptionalMetas \cup InvalidMetas
          /\ group \in SmallGroups
          /\ now \in Clock
    /\ feed = <<>>
    /\ attr = NoAttr
    /\ givenFeed = feed
    /\ givenMeta = meta
    /\ feedIn = feed
    /\ metaIn = meta
    /\ pc = "called"
    /\ idx = 0
    /\ data = NoData
    /\ rejected = ""
    /\ resCalls = <<>>
    /\ sent = NoData
    /\ logCalls = <<>>

\* feedMetaTags(meta)(group): the channel content, or the Error it throws
CallFeedMetaTags ==
    /\ pc = "called"
    /\ LET r == feedMetaTags(meta, now, group)
       IN  /\ data' = [ok |-> ~r.threw, attr |-> <<>>, channel |-> r.channel]
           /\ rejected' = r.message
    /\ pc' = "returned"
    /\ UNCHANGED <<feed, meta, attr, givenFeed, givenMeta, feedIn, metaIn, now, idx,
                   group, resCalls, sent, logCalls>>

SpecMetaTags == InitMetaTags /\ [][CallFeedMetaTags]_vars

-----------------------------------------------------------------------------
(* wrapInTopLevel called on its own, as the module exports it *)

CallerKeys == {"version", "xmlns:content", "xmlns:custom"}

CallerValues == {Null, Undef, "", Zero, "urn:custom"}

AttrMaps == UNION {[K -> CallerValues] : K \in SUBSET CallerKeys}

InitTopLevel ==
    /\ attr \in {NoAttr} \cup {Attr(m) : m \in AttrMaps}
    /\ group \in SmallGroups
    /\ meta = validMeta
    /\ now = NoDate
    /\ feed = <<>>
    /\ givenFeed = feed
    /\ givenMeta = meta
    /\ feedIn = feed
    /\ metaIn = meta
    /\ pc = "called"
    /\ idx = 0
    /\ data = NoData
    /\ rejected = ""
    /\ resCalls = <<>>
    /\ sent = NoData
    /\ logCalls = <<>>

\* wrapInTopLevel(group, attr)
CallWrapInTopLevel ==
    /\ pc = "called"
    /\ data' = wrapInTopLevel(group, attr)
    /\ pc' = "returned"
    /\ UNCHANGED <<feed, meta, attr, givenFeed, givenMeta, feedIn, metaIn, now, idx,
                   group, rejected, resCalls, sent, logCalls>>

SpecTopLevel == InitTopLevel /\ [][CallWrapInTopLevel]_vars

-----------------------------------------------------------------------------
(* Properties *)

\* a Feed of the Data Model: arrays of non-null tag-records
WellFormed(f) ==
    \A i \in 1..Len(f) :
        /\ ~f[i].nul
        /\ \A j \in 1..Len(f[i].a) : f[i].a[j] # NullRec

Present(v) == v \notin {Undef, Null, ""}

ValidMeta(m) == Present(m.title) /\ Present(m.description) /\ Present(m.link)

CallsOf(kind) == SelectSeq(resCalls, LAMBDA c : c.op = kind)

Last(q) == q[Len(q)]

Keyed(q, key) == SelectSeq(q, LAMBDA r : r.k = key)

\* the tag-records of an item that are not keyed image
WithoutImage(a) == SelectSeq(a, LAMBDA r : r.k # "image")

\* the url of the image record of raw item a, Undef when there is none
ImageUrlOf(a) ==
    IF Keyed(a, "image") = <<>> THEN Undef
    ELSE LET urls == Keyed(Keyed(a, "image")[1].c, "url")
         IN  IF urls = <<>> THEN Undef ELSE urls[1].v

\* the non-empty category values of a wrapped item, in order
RECURSIVE CategoryValues(_)
CategoryValues(a) ==
    IF a = <<>> THEN <<>>
    ELSE IF Head(a).k = "category" /\ Present(Head(a).v)
         THEN <<Head(a).v>> \o CategoryValues(Tail(a))
         ELSE CategoryValues(Tail(a))

RECURSIVE AllCategoryValues(_)
AllCategoryValues(items) ==
    IF items = <<>> THEN <<>>
    ELSE CategoryValues(Head(items).c) \o AllCategoryValues(Tail(items))

RECURSIVE PerItemCategories(_)
PerItemCategories(items) ==
    IF items = <<>> THEN <<>>
    ELSE (IF CategoryValues(Head(items).c) = <<>> THEN <<>>
          ELSE <<Tag("category", Join(CategoryValues(Head(items).c)))>>)
         \o PerItemCategories(Tail(items))

Elevating(m) == m.elevateChannelCategories \in {Undef, True}

\* C1: a render call whose Meta lacks a non-empty title, description or link
\* ends, for any feed, with status 500 and the JSON body {status: 500, message}
\* whose message is the required-field message, and sends no XML
C1_RequiredFieldResponse ==
    (pc = "done" /\ WellFormed(feedIn) /\ ~ValidMeta(metaIn)) =>
        /\ CallsOf("status") # <<>>
        /\ Last(CallsOf("status")).code = 500
        /\ CallsOf("json") # <<>>
        /\ Last(CallsOf("json")) =
               [op |-> "json", code |-> 500, body |-> requiredMessage]
        /\ CallsOf("send") = <<>>
        /\ CallsOf("type") = <<>>

SuccessWritten ==
    /\ resCalls = << [op |-> "type", code |-> 0, body |-> "text/rss+xml"],
                     [op |-> "send", code |-> 0, body |-> "xml"] >>
    /\ sent.ok
    /\ logCalls = <<>>

ErrorWrittenOnce ==
    \E message \in {requiredMessage, noDataMessage, typeErrorMessage} :
        /\ resCalls = << [op |-> "status", code |-> 500, body |-> ""],
                         [op |-> "json", code |-> 500, body |-> message] >>
        /\ logCalls = <<[level |-> "error", message |-> message]>>
        /\ ~sent.ok

\* C2: every render call writes exactly one response, the success path (type,
\* then one XML body) or the Error Responder exactly once (status 500, one
\* JSON body, one error log entry)
C2_ExactlyOneResponse ==
    pc = "done" => (SuccessWritten \/ ErrorWrittenOnce)

C5_ImageFromFirstItemOnly ==
    (pc \notin {"building", "idle"} /\ Len(feedIn) # 0 /\ WellFormed(feedIn)) =>
        LET url == ImageUrlOf(feedIn[1].a)
            expected == IF Present(url) THEN Image(url) ELSE metaIn.image
        IN  /\ pc # "thrown"
            /\ meta = [metaIn EXCEPT !.image = expected]
            /\ sent.ok =>
                   Keyed(sent.channel, "image") =
                       IF expected.nul THEN <<>>
                       ELSE <<formatImageTag(expected.url, metaIn.link, metaIn.title)>>

C5_Witness ==
    /\ pc = "done"
    /\ sent.ok
    /\ Len(feedIn) = 2
    /\ metaIn.image = Image("http://x/m.png")
    /\ ImageUrlOf(feedIn[1].a) = ""
    /\ ImageUrlOf(feedIn[2].a) = "http://x/a.png"
    /\ meta.image = Image("http://x/m.png")

\* C7: a malformed FeedItem, at any position, ends in the status-500 JSON
\* error response of the Error Responder; the exception never escapes render
\* and the response is never left unwritten
C7_MalformedItemIsAnErrorResponse ==
    (pc \in {"done", "thrown"} /\ ~WellFormed(feedIn)) =>
        /\ pc = "done"
        /\ \E j \in 1..Len(resCalls) : resCalls[j].op = "json" /\ resCalls[j].code = 500
        /\ CallsOf("status") # <<>>

\* C8: the document of a call depends only on the feed, meta and attr values
\* the caller supplied: its channel image and its items are those of the given
\* feed and meta, whatever earlier calls were made with the same objects
C8_NothingPersists ==
    (pc = "done" /\ sent.ok /\ WellFormed(givenFeed)) =>
        LET url == IF givenFeed = <<>> THEN Undef ELSE ImageUrlOf(givenFeed[1].a)
            expected == IF Present(url) THEN Image(url) ELSE givenMeta.image
        IN  /\ Keyed(sent.channel, "image") =
                   IF expected.nul THEN <<>>
                   ELSE <<formatImageTag(expected.url, givenMeta.link, givenMeta.title)>>
            /\ Keyed(sent.channel, "item") =
                   [i \in 1..Len(givenFeed) |->
                       Node("item", WithoutImage(givenFeed[i].a))]

\* C3 as stated: at most one derived category record, the comma-join of every
\* non-empty category value of all items in item order; none when no item has
\* a category or elevateChannelCategories is false
C3_OneJoinedCategory ==
    (pc = "returned" /\ data.ok) =>
        Keyed(data.channel, "category") =
            IF Elevating(meta) /\ AllCategoryValues(group) # <<>>
            THEN <<Tag("category", Join(AllCategoryValues(group)))>>
            ELSE <<>>

\* C3 amended: one derived category record for each item that has a non-empty
\* category, in item order, its value the comma-join of that item's non-empty
\* category values; none when no item has a category or
\* elevateChannelCategories is false
C3_OneCategoryPerItem ==
    (pc = "returned" /\ data.ok) =>
        Keyed(data.channel, "category") =
            IF Elevating(meta) THEN PerItemCategories(group) ELSE <<>>

C3_Witness ==
    /\ pc = "returned"
    /\ data.ok
    /\ Elevating(meta)
    /\ group = << Node("item", <<Cat("News")>>),
                  Node("item", <<Cat("Tech"), Cat("News")>>) >>
    /\ Keyed(data.channel, "category") = <<Cat("News"), Cat("Tech,News")>>

\* the root rss attributes the caller's map asks for
ExpectedAttr(attrs) ==
    LET asked(k) == IF ~attrs.nul /\ k \in DOMAIN attrs.m THEN attrs.m[k]
                    ELSE defaultNamespaces[k]
        keys == DOMAIN defaultNamespaces \cup (IF attrs.nul THEN {} ELSE DOMAIN attrs.m)
    IN  [k \in {x \in keys : asked(x) \notin {Null, Undef, "", Zero}} |-> asked(k)]

\* C6: the root rss attributes are the defaults overridden key by key by the
\* caller's values, with every key whose value is falsy (null, undefined,
\* empty string, 0) removed
C6_MergedAttributes ==
    pc = "returned" =>
        /\ data.attr = ExpectedAttr(attr)
        /\ data.channel = group

C6_Witness ==
    /\ pc = "returned"
    /\ ~attr.nul
    /\ attr.m = ("xmlns:custom" :> Null @@ "version" :> Zero)
    /\ DOMAIN data.attr = {"xmlns:content", "xmlns:mi", "xmlns:dc", "xmlns:media"}

\* C9: the channel content is title, description, link, lastBuildDate, docs,
\* copyright, generator, then Meta.opt verbatim, then the image record
\* [url, link, title] if and only if Meta.image.url is present, then the
\* derived category records (as C3 settles them), then the wrapped items
C9_ChannelOrder ==
    (pc = "returned" /\ data.ok) =>
        LET head == SubSeq(data.channel, 1, 7)
            rest == SubSeq(data.channel, 8, Len(data.channel))
        IN  /\ Len(data.channel) >= 7
            /\ [j \in 1..7 |-> head[j].k] =
                   <<"title", "description", "link", "lastBuildDate", "docs",
                     "copyright", "generator">>
            /\ rest =
                   (IF meta.opt.nul THEN <<>> ELSE meta.opt.a)
                   \o (IF ~meta.image.nul /\ Present(meta.image.url)
                       THEN <<formatImageTag(meta.image.url, meta.link, meta.title)>>
                       ELSE <<>>)
                   \o (IF Elevating(meta) THEN PerItemCategories(group) ELSE <<>>)
                   \o group

\* the value of the channel tag keyed key
ChannelValue(key) == Keyed(data.channel, key)[1].v

\* C10: title, description and link equal the Meta inputs; docs, copyright and
\* generator equal the provided value when one is present and the documented
\* default when the field is absent, null or empty
C10_ValuesAndDefaults ==
    (pc = "returned" /\ data.ok) =>
        /\ ChannelValue("title") = meta.title
        /\ ChannelValue("description") = meta.description
        /\ ChannelValue("link") = meta.link
        /\ ChannelValue("docs") = IF Present(meta.docs) THEN meta.docs ELSE docsUrl
        /\ ChannelValue("copyright") =
               IF Present(meta.copyright) THEN meta.copyright ELSE now.year
        /\ ChannelValue("generator") =
               IF Present(meta.generator) THEN meta.generator ELSE generatorMessage

====
